---- MODULE Spec2Model ----
(***************************************************************************)
(* LuminaLUT Matcher: the histogram-matching engine (services/             *)
(* colorProcessor: getHistogram, getCDF, createMapping, loadImage,         *)
(* processImages, generateLUTData), the textual-description service        *)
(* (services/geminiService: analyzeColorGrading) and the part of the App   *)
(* component that drives them (runGrading, the debounce effect,            *)
(* downloadLUT, reset).                                                    *)
(*                                                                         *)
(* Scaling.  The code works on 8-bit samples (256 levels) and stores CDFs  *)
(* in a Float32Array (24 significand bits).  The model keeps the code's    *)
(* arithmetic and scales the widths: NumLevels levels per channel and      *)
(* SigBits significand bits.  A Float32 value is modelled exactly as a     *)
(* dyadic rational <<m, e>> = m / 2^e in lowest terms, NaN as a value of   *)
(* its own.                                                                *)
(***************************************************************************)
EXTENDS Integers, Sequences, FiniteSets, TLC

(* ------------------------------ bounds --------------------------------- *)

\* Levels per channel (256 in the code: Uint8 samples, 256-entry tables).
NumLevels == 3
\* Significand bits of the CDF's float format (24 for Float32Array).
SigBits == 2
\* Largest pixel count of an image whose statistics are taken.
MaxPixels == 6
\* Largest pixel count of an image in a full processImages run.
MaxGradePixels == 2

MaxVal == NumLevels - 1
Levels == 0..MaxVal

(* --------------------------- number formats ---------------------------- *)

RECURSIVE Pow2(_)
Pow2(n) == IF n <= 0 THEN 1 ELSE 2 * Pow2(n - 1)

\* Round num/den (den > 0, num >= 0) to the nearest integer, ties to even:
\* the rounding of a Float32Array store and of a Uint8ClampedArray store.
RoundHalfEven(num, den) ==
    LET q == num \div den
        r == num % den
    IN  IF 2 * r < den THEN q
        ELSE IF 2 * r > den THEN q + 1
        ELSE IF q % 2 = 0 THEN q ELSE q + 1

\* The float m / 2^e in lowest terms (m odd, or 0 / 2^0).
RECURSIVE Normalize(_, _)
Normalize(m, e) ==
    IF m = 0 THEN <<0, 0>>
    ELSE IF e > 0 /\ m % 2 = 0 THEN Normalize(m \div 2, e - 1)
    ELSE <<m, e>>

NaN == <<0, -1>>
FZero == <<0, 0>>
FOne == <<1, 0>>
IsNaN(x) == x = NaN

\* The binade of a/b (0 < a <= b): the least k with a * 2^k >= b, so that
\* 2^-k <= a/b.
RECURSIVE Binade(_, _, _)
Binade(a, b, k) == IF a * Pow2(k) >= b THEN k ELSE Binade(a, b, k + 1)

\* cumulative / totalPixels stored into a Float32Array element: the quotient
\* rounded to SigBits significand bits, ties to even; 0/0 is NaN.
FloatDiv(a, b) ==
    IF b = 0 THEN NaN
    ELSE IF a = 0 THEN FZero
    ELSE LET k == Binade(a, b, 0)
             s == k + SigBits - 1
         IN  Normalize(RoundHalfEven(a * Pow2(s), b), s)

\* x < y on floats; every comparison with NaN is false.
FloatLess(x, y) ==
    /\ ~IsNaN(x)
    /\ ~IsNaN(y)
    /\ x[1] * Pow2(y[2]) < y[1] * Pow2(x[2])

FloatLeq(x, y) == ~IsNaN(x) /\ ~IsNaN(y) /\ ~FloatLess(y, x)

(* ------------------------------ the engine ----------------------------- *)

\* A pixel buffer is a zero-based array of samples, 4 per pixel (R, G, B, A).
NumPixels(data) == Cardinality(DOMAIN data) \div 4

Count(data, offset, v) ==
    Cardinality({p \in 0..(NumPixels(data) - 1) : data[4 * p + offset] = v})

getHistogram(data) ==
    [rHist |-> [v \in Levels |-> Count(data, 0, v)],
     gHist |-> [v \in Levels |-> Count(data, 1, v)],
     bHist |-> [v \in Levels |-> Count(data, 2, v)]]

RECURSIVE Cumulative(_, _)
Cumulative(hist, i) == IF i < 0 THEN 0 ELSE Cumulative(hist, i - 1) + hist[i]

\* Mutant of getCDF: each entry is its own bucket's share, not the running sum.
getCDFNoRunningSum(hist, totalPixels) ==
    [i \in Levels |-> FloatDiv(hist[i], totalPixels)]

getCDF(hist, totalPixels) ==
    [i \in Levels |-> FloatDiv(Cumulative(hist, i), totalPixels)]

\* A store into a Uint8Array element: the value modulo the number of levels.
ToUint8(x) == x % NumLevels

\* Mutant of Advance: the cursor may pass the last level (refIdx < 256), where
\* refCdf[refIdx] is undefined and the comparison false.
RECURSIVE AdvancePastEnd(_, _, _)
AdvancePastEnd(refCdf, refIdx, level) ==
    IF refIdx < NumLevels /\ FloatLess(refCdf[refIdx], level)
    THEN AdvancePastEnd(refCdf, refIdx + 1, level)
    ELSE refIdx

\* Mutant of Advance: the cursor also steps over a reference value whose CDF
\* equals the source's (<= for <).
RECURSIVE AdvanceOverTies(_, _, _)
AdvanceOverTies(refCdf, refIdx, level) ==
    IF refIdx < MaxVal /\ FloatLeq(refCdf[refIdx], level)
    THEN AdvanceOverTies(refCdf, refIdx + 1, level)
    ELSE refIdx

\* The while loop of createMapping: the cursor's position after it.
RECURSIVE Advance(_, _, _)
Advance(refCdf, refIdx, level) ==
    IF refIdx < MaxVal /\ FloatLess(refCdf[refIdx], level)
    THEN Advance(refCdf, refIdx + 1, level)
    ELSE refIdx

\* The cursor after the iterations srcIdx = 0..i of the for loop.
RECURSIVE Cursor(_, _, _)
Cursor(sourceCdf, refCdf, i) ==
    IF i < 0 THEN 0
    ELSE Advance(refCdf, Cursor(sourceCdf, refCdf, i - 1), sourceCdf[i])

createMapping(sourceCdf, refCdf) ==
    [srcIdx \in Levels |-> ToUint8(Cursor(sourceCdf, refCdf, srcIdx))]

ChannelCDFs(data, totalPixels) ==
    LET hists == getHistogram(data)
    IN  [r |-> getCDF(hists.rHist, totalPixels),
         g |-> getCDF(hists.gHist, totalPixels),
         b |-> getCDF(hists.bHist, totalPixels)]

ChannelMappings(sourceCDFs, refCDFs) ==
    [r |-> createMapping(sourceCDFs.r, refCDFs.r),
     g |-> createMapping(sourceCDFs.g, refCDFs.g),
     b |-> createMapping(sourceCDFs.b, refCDFs.b)]

\* A store of num/den into a Uint8ClampedArray element: clamped to the
\* levels, rounded to the nearest, ties to even.
ToUint8Clamped(num, den) ==
    IF num <= 0 THEN 0
    ELSE LET q == RoundHalfEven(num, den)
         IN  IF q > MaxVal THEN MaxVal ELSE q

\* Mutant of Blend: the blend runs from the match to the source.
BlendReversed(src, match, intensity) ==
    ToUint8Clamped(match * 100 + (src - match) * intensity, 100)

\* source + (match - source) * intensity, the intensity in hundredths (the
\* caller passes intensity / 100), stored into the result buffer.
Blend(src, match, intensity) ==
    ToUint8Clamped(src * 100 + (match - src) * intensity, 100)

\* The preview loop of processImages: the graded buffer.
ApplyToPreview(data, mappings, intensity) ==
    [i \in DOMAIN data |->
        CASE i % 4 = 0 -> Blend(data[i], mappings.r[data[i]], intensity)
          [] i % 4 = 1 -> Blend(data[i], mappings.g[data[i]], intensity)
          [] i % 4 = 2 -> Blend(data[i], mappings.b[data[i]], intensity)
          [] OTHER -> MaxVal]

(* ------------------------------- images -------------------------------- *)

\* What a URL (a data URL read from an uploaded file) stands for: no URL, a
\* file the browser decodes to width x height pixels whose canvas read-back
\* is data, or a file it cannot decode.
NoUrl == [kind |-> "none", width |-> 0, height |-> 0, data |-> <<>>]
Corrupt == [kind |-> "corrupt", width |-> 0, height |-> 0, data |-> <<>>]
Image(d) ==
    [kind |-> "image", width |-> NumPixels(d),
     height |-> IF NumPixels(d) = 0 THEN 0 ELSE 1, data |-> d]

\* canvas.toDataURL over the canvas the result was put on.  The JPEG
\* encoder is the platform's; the URL is identified with the pixels encoded.
toDataURL(width, height, data) ==
    [kind |-> "image", width |-> width, height |-> height, data |-> data]

ZeroCDFs == [r |-> [v \in Levels |-> FZero], g |-> [v \in Levels |-> FZero],
             b |-> [v \in Levels |-> FZero]]
ZeroTables == [r |-> [v \in Levels |-> 0], g |-> [v \in Levels |-> 0],
               b |-> [v \in Levels |-> 0]]

\* loadImage: the promise resolves on the image's load event; no handler is
\* set for its error event, so for a file that does not decode it stays
\* pending.
loadImage(url) == IF url.kind = "image" THEN "resolves" ELSE "pending"

\* A call of processImages, from the call to the settling of its promise.
processImages(sourceUrl, refUrl, intensity) ==
    [sourceUrl |-> sourceUrl, refUrl |-> refUrl, intensity |-> intensity,
     sourceLoad |-> "loading", refLoad |-> "loading",
     state |-> "pending", reason |-> "",
     refCDFs |-> ZeroCDFs, sourceCDFs |-> ZeroCDFs, mappings |-> ZeroTables,
     resultData |-> <<>>, result |-> NoUrl]

Rejected(call, reason) == [call EXCEPT !.state = "rejected", !.reason = reason]

\* getImageData throws IndexSizeError when the rectangle has no pixels.
GetImageDataThrows(img) == img.width = 0 \/ img.height = 0

\* The body of processImages after both images are loaded; ctx tells
\* whether canvas.getContext returned a context.
ProcessBody(call, ctx) ==
    LET refImg == call.refUrl
        sourceImg == call.sourceUrl
        refCDFs == ChannelCDFs(refImg.data, refImg.width * refImg.height)
        sourceCDFs == ChannelCDFs(sourceImg.data, sourceImg.width * sourceImg.height)
        mappings == ChannelMappings(sourceCDFs, refCDFs)
        resultData == ApplyToPreview(sourceImg.data, mappings, call.intensity)
    IN  IF ~ctx THEN Rejected(call, "Canvas context failed")
        ELSE IF GetImageDataThrows(refImg) THEN Rejected(call, "IndexSizeError")
        ELSE IF GetImageDataThrows(sourceImg)
             THEN Rejected([call EXCEPT !.refCDFs = refCDFs], "IndexSizeError")
        ELSE [call EXCEPT
                !.refCDFs = refCDFs,
                !.sourceCDFs = sourceCDFs,
                !.mappings = mappings,
                !.resultData = resultData,
                !.result = toDataURL(sourceImg.width, sourceImg.height, resultData),
                !.state = "resolved"]

LoadField(which) == IF which = "source" THEN "sourceLoad" ELSE "refLoad"
UrlOf(call, which) == IF which = "source" THEN call.sourceUrl ELSE call.refUrl

\* The load event of one of the call's two images: its loadImage promise
\* resolves, and when both have, Promise.all does and the body runs.
OnImageLoad(call, which, ctx) ==
    LET c == [call EXCEPT ![LoadField(which)] = "loaded"]
    IN  IF c.sourceLoad = "loaded" /\ c.refLoad = "loaded"
        THEN ProcessBody(c, ctx)
        ELSE c

\* The error event of one of the call's two images: nothing listens.
OnImageError(call, which) == [call EXCEPT ![LoadField(which)] = "failed"]

CanLoad(call, which) ==
    /\ call.state = "pending"
    /\ call[LoadField(which)] = "loading"
    /\ loadImage(UrlOf(call, which)) = "resolves"

CanFail(call, which) ==
    /\ call.state = "pending"
    /\ call[LoadField(which)] = "loading"
    /\ UrlOf(call, which).kind = "corrupt"

(* --------------------------- the LUT export ---------------------------- *)

LUT_SIZE == 33

\* (num / den).toFixed(6), in millionths: the nearest, halves up.
Fixed6(num, den) == (2 * num * 1000000 + den) \div (2 * den)

\* Mutant of DataLine: the three values are written blue first.
DataLineBlueFirst(r, g, b) ==
    [kind |-> "data",
     rgb |-> <<Fixed6(b, LUT_SIZE - 1), Fixed6(g, LUT_SIZE - 1), Fixed6(r, LUT_SIZE - 1)>>]

\* The line appended for the grid point (r, g, b): rv, gv, bv to 6 decimals.
DataLine(r, g, b) ==
    [kind |-> "data",
     rgb |-> <<Fixed6(r, LUT_SIZE - 1), Fixed6(g, LUT_SIZE - 1), Fixed6(b, LUT_SIZE - 1)>>]

\* The innermost loop: the lines of r = 0..LUT_SIZE-1 for one g and b.
RLoop(g, b) == [i \in 1..LUT_SIZE |-> DataLine(i - 1, g, b)]

\* The middle loop from g onward, for one b.
RECURSIVE GLoop(_, _)
GLoop(g, b) == IF g >= LUT_SIZE THEN <<>> ELSE RLoop(g, b) \o GLoop(g + 1, b)

\* The outermost loop from b onward.
RECURSIVE BLoop(_)
BLoop(b) == IF b >= LUT_SIZE THEN <<>> ELSE GLoop(0, b) \o BLoop(b + 1)

\* The text generateLUTData builds, line by line; it reads none of the
\* function's arguments.
CubeText ==
    <<[kind |-> "title", name |-> "LuminaLUT Grade"],
      [kind |-> "size", n |-> LUT_SIZE],
      [kind |-> "blank"]>> \o BLoop(0)

generateLUTData(sourceUrl, refUrl, intensity) == CubeText

(* ------------------------------- inputs -------------------------------- *)

\* Float values a CDF entry may take in the mapper's unit runs.
FloatVals == {FZero, <<1, 2>>, <<1, 1>>, <<3, 2>>, FOne}

NonDecreasing(cdf) ==
    \A a, b \in Levels : a <= b => FloatLeq(cdf[a], cdf[b])

CdfArrays == {cdf \in [Levels -> FloatVals] : NonDecreasing(cdf)}

\* The CDF of a channel whose pixels all have value v.
StepCdf(v) == [i \in Levels |-> IF i < v THEN FZero ELSE FOne]

\* The table a fresh Uint8Array holds.
ZeroTable == [v \in Levels |-> 0]

\* Sample sequences of n pixels in non-decreasing order.
SortedSamples(n) ==
    {f \in [0..(n - 1) -> Levels] : \A i, j \in 0..(n - 1) : i <= j => f[i] <= f[j]}

\* The opaque gray image with the samples f: R = G = B = f[p], A = MaxVal.
GrayBuffer(f, n) ==
    [i \in 0..(4 * n - 1) |-> IF i % 4 = 3 THEN MaxVal ELSE f[i \div 4]]

GrayBuffers(maxPixels) ==
    UNION {{GrayBuffer(f, n) : f \in SortedSamples(n)} : n \in 0..maxPixels}

\* Every buffer of one pixel.
OnePixelBuffers == [0..3 -> Levels]

OpaqueOnePixelBuffers == {d \in OnePixelBuffers : d[3] = MaxVal}

(* ---------------------------- the state ------------------------------- *)

VARIABLES
    mapperCall,   \* a unit run of createMapping: its arguments and result
    cdfCall,      \* a unit run of getHistogram, getCDF and a self-match
    gradeCall,    \* one call of processImages
    lutCall,      \* one call of generateLUTData
    refImage,     \* App state: the reference image's URL, or none
    sourceImage,  \* App state: the source image's URL, or none
    previewImage, \* App state: the graded preview's URL, or none
    intensity,    \* App state: the slider, in percent
    isProcessing, \* App state
    aiAnalysis,   \* App state: the reference's description, or none
    error,        \* App state: the error message, or "null"
    timer,        \* the effect's pending timeout and the runGrading it holds
    runs,         \* the calls of runGrading so far, in the order they began
    events        \* the number of user events so far

unitVars == <<mapperCall, cdfCall, gradeCall, lutCall>>
appVars == <<refImage, sourceImage, previewImage, intensity, isProcessing,
             aiAnalysis, error, timer, runs, events>>
vars == <<mapperCall, cdfCall, gradeCall, lutCall, refImage, sourceImage,
          previewImage, intensity, isProcessing, aiAnalysis, error, timer, runs,
          events>>

NoAnalysis == [kind |-> "none", of |-> NoUrl]

\* No timeout pending.
NoTimer == [pending |-> FALSE, refImage |-> NoUrl, sourceImage |-> NoUrl,
            intensity |-> 0, aiAnalysis |-> NoAnalysis]

\* The App as mounted: the initial values of its useState hooks; the effect's
\* first run sets no timeout, as no image is there.
AppMount ==
    /\ refImage = NoUrl
    /\ sourceImage = NoUrl
    /\ previewImage = NoUrl
    /\ intensity = 100
    /\ isProcessing = FALSE
    /\ aiAnalysis = NoAnalysis
    /\ error = "null"
    /\ timer = NoTimer
    /\ runs = <<>>
    /\ events = 0

\* Intensities in percent whose hundredth is exact in binary, so that the
\* blend's floating-point arithmetic is exact.
Intensities == {0, 50, 100}

SourceFiles ==
    {Image(d) : d \in OnePixelBuffers \cup GrayBuffers(MaxGradePixels)} \cup {Corrupt}
RefFiles ==
    {Image(d) : d \in OpaqueOnePixelBuffers \cup GrayBuffers(MaxGradePixels)}
        \cup {Corrupt}

\* The image with one pixel of every level.
Ramp == GrayBuffer([i \in Levels |-> i], NumLevels)

LutSourceFiles ==
    {Image(d) : d \in (GrayBuffers(MaxGradePixels) \ {<<>>}) \cup {Ramp}}
LutRefFiles ==
    {Image(d) : d \in (GrayBuffers(1) \ {<<>>}) \cup {Ramp}}

GradeIdle == processImages(NoUrl, NoUrl, 0)
LutIdle == [sourceUrl |-> NoUrl, refUrl |-> NoUrl, intensity |-> 0,
            done |-> FALSE, cube |-> <<>>]

MapperIdle == [sourceCdf |-> ZeroTable, refCdf |-> ZeroTable,
               mapping |-> ZeroTable, done |-> FALSE]
CdfIdle == [data |-> <<>>, pc |-> "idle", cdfs |-> <<>>, mappings |-> <<>>]

(* ----------------------- createMapping, unit runs ---------------------- *)

MapperInit ==
    /\ mapperCall \in {[sourceCdf |-> s, refCdf |-> r,
                         mapping |-> ZeroTable, done |-> FALSE] :
                            s \in CdfArrays, r \in CdfArrays}
    /\ cdfCall = CdfIdle
    /\ gradeCall = GradeIdle
    /\ lutCall = LutIdle
    /\ AppMount

MapperRun ==
    /\ ~mapperCall.done
    /\ mapperCall' = [mapperCall EXCEPT
            !.mapping = createMapping(mapperCall.sourceCdf, mapperCall.refCdf),
            !.done = TRUE]
    /\ UNCHANGED <<cdfCall, gradeCall, lutCall, appVars>>

SpecMapper == MapperInit /\ [][MapperRun]_vars

(* -------------------- getHistogram, getCDF, unit runs ------------------ *)

CdfInit ==
    /\ cdfCall \in {[data |-> d, pc |-> "start", cdfs |-> <<>>, mappings |-> <<>>] :
                        d \in GrayBuffers(MaxPixels) \cup OnePixelBuffers}
    /\ mapperCall = MapperIdle
    /\ gradeCall = GradeIdle
    /\ lutCall = LutIdle
    /\ AppMount

\* The statistics of one image: its histograms and their CDFs, with the
\* image's pixel count as totalPixels.
CdfBuild ==
    /\ cdfCall.pc = "start"
    /\ cdfCall' = [cdfCall EXCEPT
            !.cdfs = ChannelCDFs(cdfCall.data, NumPixels(cdfCall.data)),
            !.pc = "cdf"]
    /\ UNCHANGED <<mapperCall, gradeCall, lutCall, appVars>>

\* The image matched against itself.
CdfSelfMatch ==
    /\ cdfCall.pc = "cdf"
    /\ cdfCall' = [cdfCall EXCEPT
            !.mappings = ChannelMappings(cdfCall.cdfs, cdfCall.cdfs),
            !.pc = "matched"]
    /\ UNCHANGED <<mapperCall, gradeCall, lutCall, appVars>>

SpecCdf == CdfInit /\ [][CdfBuild \/ CdfSelfMatch]_vars

(* ------------------------- processImages, one call --------------------- *)

GradeInit ==
    /\ gradeCall \in {processImages(s, r, t) :
                         s \in SourceFiles, r \in RefFiles, t \in Intensities}
    /\ mapperCall = MapperIdle
    /\ cdfCall = CdfIdle
    /\ lutCall = LutIdle
    /\ AppMount

GradeImageLoad ==
    \E which \in {"source", "ref"}, ctx \in BOOLEAN :
        /\ CanLoad(gradeCall, which)
        /\ gradeCall' = OnImageLoad(gradeCall, which, ctx)
        /\ UNCHANGED <<mapperCall, cdfCall, lutCall, appVars>>

GradeImageError ==
    \E which \in {"source", "ref"} :
        /\ CanFail(gradeCall, which)
        /\ gradeCall' = OnImageError(gradeCall, which)
        /\ UNCHANGED <<mapperCall, cdfCall, lutCall, appVars>>

SpecGrade == GradeInit /\ [][GradeImageLoad \/ GradeImageError]_vars

(* ------------------------ generateLUTData, one call -------------------- *)

LutInit ==
    /\ lutCall \in {[sourceUrl |-> s, refUrl |-> r, intensity |-> t,
                     done |-> FALSE, cube |-> <<>>] :
                        s \in LutSourceFiles, r \in LutRefFiles, t \in Intensities}
    /\ mapperCall = MapperIdle
    /\ cdfCall = CdfIdle
    /\ gradeCall = GradeIdle
    /\ AppMount

LutExport ==
    /\ ~lutCall.done
    /\ lutCall' = [lutCall EXCEPT
            !.cube = generateLUTData(lutCall.sourceUrl, lutCall.refUrl,
                                     lutCall.intensity),
            !.done = TRUE]
    /\ UNCHANGED <<mapperCall, cdfCall, gradeCall, appVars>>

SpecLut == LutInit /\ [][LutExport]_vars

(* ------------------------------- the App ------------------------------- *)

\* The most calls of runGrading in one behaviour.
MaxRuns == 3
\* The most user events (files read, slider moves, resets) in one behaviour.
MaxEvents == 3

\* The slider positions a user moves to.
SliderValues == {50, 100}

\* The files a user uploads: a dark and a bright image of one pixel, and a
\* file that is no image.
Dark == Image([i \in 0..3 |-> IF i = 3 THEN MaxVal ELSE 0])
Bright == Image([i \in 0..3 |-> MaxVal])
AppFiles == {Dark, Bright, Corrupt}

ErrorMessage == "Failed to process color grading. Ensure images are valid."

\* What analyzeColorGrading returns once generateContent has settled: the
\* model's text for the image, the default for an empty text, the fallback
\* of the catch block for a failure.
analyzeColorGrading(imageDataUrl, outcome) ==
    CASE outcome = "text" -> [kind |-> "description", of |-> imageDataUrl]
      [] outcome = "empty" -> [kind |-> "default", of |-> NoUrl]
      [] OTHER -> [kind |-> "fallback", of |-> NoUrl]

\* The effect of App after a render with these values of its dependencies
\* (refImage, sourceImage, intensity, and runGrading, which is made anew
\* when aiAnalysis or one of the others changes): when none changed the
\* effect does not run; otherwise its cleanup clears the timeout and, with
\* both images there, a new timeout holds the new runGrading.
Effect(ref, src, int, ai) ==
    IF <<ref, src, int, ai>> = <<refImage, sourceImage, intensity, aiAnalysis>>
    THEN timer
    ELSE IF ref.kind # "none" /\ src.kind # "none"
         THEN [pending |-> TRUE, refImage |-> ref, sourceImage |-> src,
               intensity |-> int, aiAnalysis |-> ai]
         ELSE NoTimer

\* handleFileChange, at reader.onload.
FileRead ==
    \E type \in {"ref", "source"}, result \in AppFiles :
        /\ events < MaxEvents
        /\ events' = events + 1
        /\ refImage' = IF type = "ref" THEN result ELSE refImage
        /\ sourceImage' = IF type = "ref" THEN sourceImage ELSE result
        /\ timer' = Effect(refImage', sourceImage', intensity, aiAnalysis)
        /\ UNCHANGED <<previewImage, intensity, isProcessing, aiAnalysis, error,
                       runs, unitVars>>

\* The slider's onChange.
SetIntensity ==
    \E value \in SliderValues :
        /\ events < MaxEvents
        /\ events' = events + 1
        /\ intensity' = value
        /\ timer' = Effect(refImage, sourceImage, value, aiAnalysis)
        /\ UNCHANGED <<refImage, sourceImage, previewImage, isProcessing,
                       aiAnalysis, error, runs, unitVars>>

reset ==
    /\ events < MaxEvents
    /\ events' = events + 1
    /\ refImage' = NoUrl
    /\ sourceImage' = NoUrl
    /\ previewImage' = NoUrl
    /\ aiAnalysis' = NoAnalysis
    /\ intensity' = 100
    /\ timer' = Effect(NoUrl, NoUrl, 100, NoAnalysis)
    /\ UNCHANGED <<isProcessing, error, runs, unitVars>>

\* The timeout fires: the runGrading it holds runs up to its await of
\* processImages.
runGrading ==
    /\ timer.pending
    /\ Len(runs) < MaxRuns
    /\ timer.refImage.kind # "none" /\ timer.sourceImage.kind # "none"
    /\ isProcessing' = TRUE
    /\ error' = "null"
    /\ runs' = Append(runs,
            [refImage |-> timer.refImage, aiAnalysis |-> timer.aiAnalysis,
             call |-> processImages(timer.sourceImage, timer.refImage, timer.intensity),
             pc |-> "processing", graded |-> FALSE, failed |-> FALSE])
    /\ timer' = NoTimer
    /\ UNCHANGED <<refImage, sourceImage, previewImage, intensity, aiAnalysis,
                   events, unitVars>>

\* runGrading from the settling of processImages to its next await or its
\* end: with the result, setPreviewImage, then either the analysis is
\* skipped, or analyzeColorGrading is called and its client is made (client)
\* and the call awaited, or making the client throws and the catch block
\* runs; with a rejection, the catch block.
AfterProcessImages(run, call, client) ==
    IF call.state = "pending" THEN [run EXCEPT !.call = call]
    ELSE IF call.state = "rejected"
         THEN [run EXCEPT !.call = call, !.failed = TRUE, !.pc = "done"]
    ELSE IF run.aiAnalysis.kind # "none"
         THEN [run EXCEPT !.call = call, !.graded = TRUE, !.pc = "done"]
    ELSE IF client
         THEN [run EXCEPT !.call = call, !.graded = TRUE, !.pc = "analyzing"]
    ELSE [run EXCEPT !.call = call, !.graded = TRUE, !.failed = TRUE, !.pc = "done"]

\* A run that has ended: its closure and its call are released.
Ended(run) ==
    [run EXCEPT !.pc = "done", !.refImage = NoUrl, !.aiAnalysis = NoAnalysis,
                !.call = GradeIdle]

\* The state updates of a stretch of runGrading that ran from old to new.
RunUpdates(old, new) ==
    /\ previewImage' = IF new.graded /\ ~old.graded THEN new.call.result
                       ELSE previewImage
    /\ error' = IF new.failed THEN ErrorMessage ELSE error
    /\ isProcessing' = IF new.pc = "done" THEN FALSE ELSE isProcessing

\* The load event of an image of a run's processImages call.
RunImageLoad ==
    \E i \in DOMAIN runs, which \in {"source", "ref"}, ctx \in BOOLEAN,
       client \in BOOLEAN :
        /\ runs[i].pc = "processing"
        /\ CanLoad(runs[i].call, which)
        /\ LET new == AfterProcessImages(runs[i],
                          OnImageLoad(runs[i].call, which, ctx), client)
           IN  /\ runs' = [runs EXCEPT ![i] = IF new.pc = "done" THEN Ended(new)
                                                 ELSE new]
               /\ RunUpdates(runs[i], new)
        /\ UNCHANGED <<refImage, sourceImage, intensity, aiAnalysis, timer,
                       events, unitVars>>

\* The error event of an image of a run's processImages call.
RunImageError ==
    \E i \in DOMAIN runs, which \in {"source", "ref"} :
        /\ runs[i].pc = "processing"
        /\ CanFail(runs[i].call, which)
        /\ runs' = [runs EXCEPT ![i].call = OnImageError(runs[i].call, which)]
        /\ UNCHANGED <<refImage, sourceImage, previewImage, intensity,
                       isProcessing, aiAnalysis, error, timer, events, unitVars>>

\* generateContent settles: analyzeColorGrading returns, runGrading sets the
\* analysis and ends.
AnalysisSettles ==
    \E i \in DOMAIN runs, outcome \in {"text", "empty", "fails"} :
        /\ runs[i].pc = "analyzing"
        /\ aiAnalysis' = analyzeColorGrading(runs[i].refImage, outcome)
        /\ isProcessing' = FALSE
        /\ runs' = [runs EXCEPT ![i] = Ended(runs[i])]
        /\ timer' = Effect(refImage, sourceImage, intensity, aiAnalysis')
        /\ UNCHANGED <<refImage, sourceImage, previewImage, intensity, error,
                       events, unitVars>>

Init ==
    /\ AppMount
    /\ mapperCall = MapperIdle
    /\ cdfCall = CdfIdle
    /\ gradeCall = GradeIdle
    /\ lutCall = LutIdle

Next ==
    \/ FileRead
    \/ SetIntensity
    \/ reset
    \/ runGrading
    \/ RunImageLoad
    \/ RunImageError
    \/ AnalysisSettles

Spec == Init /\ [][Next]_vars

(* ------------------------ claims: the Channel Mapper ------------------- *)

Monotone(mapping) == \A a, b \in Levels : a <= b => mapping[a] <= mapping[b]

\* C1: for every pair of non-decreasing source and reference CDFs, the
\* mapping createMapping returns is monotonically non-decreasing in the
\* source value and every entry is a level (0..MaxVal).
C1_MappingMonotone ==
    mapperCall.done =>
        /\ Monotone(mapperCall.mapping)
        /\ \A v \in Levels : mapperCall.mapping[v] \in Levels

\* A run whose cursor moved and ended at the last level because no reference
\* value reaches the source's level.
C1_Witness ==
    /\ mapperCall.done
    /\ mapperCall.mapping[0] < mapperCall.mapping[MaxVal]
    /\ mapperCall.mapping[MaxVal] = MaxVal
    /\ FloatLess(mapperCall.refCdf[MaxVal], mapperCall.sourceCdf[MaxVal])

\* The reference values whose CDF is not less than the level.
Reaching(refCdf, level) == {r \in Levels : FloatLeq(level, refCdf[r])}

SetMin(S) == CHOOSE x \in S : \A y \in S : x <= y

\* C2: mapping[s] is the smallest reference value r with
\* refCdf[r] >= sourceCdf[s], and the last level when there is none; with a
\* reference channel all at value x and a source channel all at value y,
\* y maps to x.
C2_SmallestReaching ==
    mapperCall.done =>
        /\ \A s \in Levels :
              LET R == Reaching(mapperCall.refCdf, mapperCall.sourceCdf[s])
              IN  mapperCall.mapping[s] = IF R = {} THEN MaxVal ELSE SetMin(R)
        /\ \A x, y \in Levels :
              (mapperCall.refCdf = StepCdf(x) /\ mapperCall.sourceCdf = StepCdf(y))
                  => mapperCall.mapping[y] = x

\* The scenario: reference all at the last level, source all at level 1, and
\* a reference plateau under the cursor.
C2_Witness ==
    /\ mapperCall.done
    /\ mapperCall.refCdf = StepCdf(MaxVal)
    /\ mapperCall.sourceCdf = StepCdf(1)
    /\ mapperCall.mapping[1] = MaxVal

(* ------------------- claims: the Distribution Normalizer --------------- *)

Channels == {"r", "g", "b"}
Offset(c) == CASE c = "r" -> 0 [] c = "g" -> 1 [] c = "b" -> 2

CdfBuilt == cdfCall.pc \in {"cdf", "matched"}

\* C7: for a buffer of at least one pixel, each channel CDF is non-decreasing,
\* has every entry in [0, 1], ends at 1, and is 1 everywhere when the channel
\* is entirely 0.
C7_CdfShape ==
    (CdfBuilt /\ NumPixels(cdfCall.data) > 0) =>
        \A c \in Channels :
            LET cdf == cdfCall.cdfs[c]
            IN  /\ NonDecreasing(cdf)
                /\ \A i \in Levels : FloatLeq(FZero, cdf[i]) /\ FloatLeq(cdf[i], FOne)
                /\ cdf[MaxVal] = FOne
                /\ (Count(cdfCall.data, Offset(c), 0) = NumPixels(cdfCall.data))
                       => \A i \in Levels : cdf[i] = FOne

\* A largest image with three distinct CDF levels in its red channel.
C7_Witness ==
    /\ CdfBuilt
    /\ NumPixels(cdfCall.data) = MaxPixels
    /\ FloatLess(FZero, cdfCall.cdfs.r[0])
    /\ FloatLess(cdfCall.cdfs.r[0], cdfCall.cdfs.r[1])
    /\ FloatLess(cdfCall.cdfs.r[1], FOne)

C6_SelfMatchIdentity ==
    (cdfCall.pc = "matched" /\ NumPixels(cdfCall.data) > 0) =>
        \A c \in Channels : \A v \in Levels :
            LET cdf == cdfCall.cdfs[c]
                m == cdfCall.mappings[c]
            IN  /\ Count(cdfCall.data, Offset(c), v) > 0 => m[v] = v
                /\ cdf[m[v]] = cdf[v]

(* -------------------- claims: the Grading Applicator ------------------- *)

ChannelAt(o) == CASE o = 0 -> "r" [] o = 1 -> "g" [] o = 2 -> "b"

\* C5: at intensity 0 the graded buffer's R, G, B samples equal the source's,
\* at intensity 1 they equal mapping[source sample]; in both cases the buffer
\* has the source's length and every alpha sample is the maximum.
C5_IntensityBoundary ==
    (gradeCall.state = "resolved" /\ gradeCall.intensity \in {0, 100}) =>
        LET src == gradeCall.sourceUrl.data
            out == gradeCall.resultData
        IN  /\ DOMAIN out = DOMAIN src
            /\ \A p \in 0..(NumPixels(src) - 1) :
                  /\ out[4 * p + 3] = MaxVal
                  /\ \A o \in 0..2 :
                        out[4 * p + o] =
                            IF gradeCall.intensity = 0
                            THEN src[4 * p + o]
                            ELSE gradeCall.mappings[ChannelAt(o)][src[4 * p + o]]

\* A full-intensity grade that changes a sample of a pixel that is not opaque.
C5_Witness ==
    /\ gradeCall.state = "resolved"
    /\ gradeCall.intensity = 100
    /\ gradeCall.sourceUrl.data[3] # MaxVal
    /\ gradeCall.resultData[0] # gradeCall.sourceUrl.data[0]

(* ----------------------- claims: the LUT Synthesizer ------------------- *)

Cube(n) == n * n * n

\* The mappings processImages derives from a source and a reference.
MappingsOf(sourceUrl, refUrl) ==
    ChannelMappings(
        ChannelCDFs(sourceUrl.data, sourceUrl.width * sourceUrl.height),
        ChannelCDFs(refUrl.data, refUrl.width * refUrl.height))

Identity == [v \in Levels |-> v]

\* The grid indices whose axis value i / (LUT_SIZE - 1) is a sample value
\* v / MaxVal, where the mapping applies without interpolation.
ExactGrid == {i \in 0..(LUT_SIZE - 1) : (i * MaxVal) % (LUT_SIZE - 1) = 0}
SampleAt(i) == (i * MaxVal) \div (LUT_SIZE - 1)

\* The graded value of sample v in [0, 1], to 6 decimals: the blend of the
\* preview, not stored into bytes.
GradedFixed6(mapping, v, percent) ==
    Fixed6(v * 100 + (mapping[v] - v) * percent, 100 * MaxVal)

LineIndex(r, g, b) == 4 + r + LUT_SIZE * g + LUT_SIZE * LUT_SIZE * b

\* C3: the exported LUT carries the grade of its source and reference: at
\* every grid point (here: those on exact sample values) the emitted triple
\* is the channel mappings applied to the axis values, blended by intensity
\* as in the preview.
C3_LutCarriesGrade ==
    lutCall.done =>
        LET m == MappingsOf(lutCall.sourceUrl, lutCall.refUrl)
        IN  \A r, g, b \in ExactGrid :
                lutCall.cube[LineIndex(r, g, b)].rgb =
                    <<GradedFixed6(m.r, SampleAt(r), lutCall.intensity),
                      GradedFixed6(m.g, SampleAt(g), lutCall.intensity),
                      GradedFixed6(m.b, SampleAt(b), lutCall.intensity)>>

\* C4: the text is the TITLE line, the LUT_3D_SIZE line, a blank line and
\* exactly LUT_SIZE^3 data lines, b outermost and r innermost: the k-th data
\* line is that of the grid point r = k mod N, g = (k div N) mod N,
\* b = k div N^2, and equals that point's coordinates i / (N - 1).
C4_CubeLayout ==
    lutCall.done =>
        LET cube == lutCall.cube
            N == LUT_SIZE
        IN  /\ Len(cube) = 3 + Cube(N)
            /\ cube[1].kind = "title"
            /\ cube[2] = [kind |-> "size", n |-> N]
            /\ cube[3].kind = "blank"
            /\ \A k \in 0..(Cube(N) - 1) :
                  /\ cube[4 + k].kind = "data"
                  /\ cube[4 + k].rgb =
                        <<Fixed6(k % N, N - 1),
                          Fixed6((k \div N) % N, N - 1),
                          Fixed6(k \div (N * N), N - 1)>>

\* An export at intensity 1 of a pair whose mappings are the identity.
C4_Witness ==
    /\ lutCall.done
    /\ lutCall.intensity = 100
    /\ MappingsOf(lutCall.sourceUrl, lutCall.refUrl) =
           [r |-> Identity, g |-> Identity, b |-> Identity]
    /\ Len(lutCall.cube) = 3 + Cube(LUT_SIZE)

(* -------------------------- claims: the App ---------------------------- *)

\* C9: a decode failure is terminal and surfaced: a run of runGrading one of
\* whose images failed to decode has ended with the error reported; it is
\* not left pending.
C9_DecodeFailureSurfaced ==
    \A i \in DOMAIN runs :
        (runs[i].call.sourceLoad = "failed" \/ runs[i].call.refLoad = "failed")
            => (runs[i].pc = "done" /\ runs[i].failed)

\* C10: a failure of the analysis never fails grading: a run of runGrading
\* whose processImages succeeded (the preview was set) reports no error,
\* whatever analyzeColorGrading does.
C10_AnalysisFailureHarmless ==
    \A i \in DOMAIN runs : runs[i].graded => ~runs[i].failed

\* No grading is scheduled or in flight: the last timeout has fired and
\* every run of runGrading has ended.
Settled ==
    /\ ~timer.pending
    /\ \A i \in DOMAIN runs : runs[i].pc = "done"

\* Both images are there and the last run of runGrading to start, which
\* held the current images and intensity, has ended with nothing reported.
GradedCurrent ==
    /\ Settled
    /\ refImage.kind = "image" /\ sourceImage.kind = "image"
    /\ previewImage # NoUrl
    /\ error = "null"

\* C11: the analysis follows the reference image: once grading has completed
\* for the current reference image, an analysis that describes an image
\* describes the current reference image.
C11_AnalysisOfCurrentReference ==
    (GradedCurrent /\ aiAnalysis.kind = "description")
        => aiAnalysis.of = refImage

\* What processImages resolves to for a decodable pair at an intensity.
GradedPreview(sourceUrl, refUrl, percent) ==
    OnImageLoad(OnImageLoad(processImages(sourceUrl, refUrl, percent),
                            "source", TRUE), "ref", TRUE).result

\* C12: stale results are never shown: once no grading is in flight, the
\* preview is empty when an image is missing, and when the last grading
\* ended with nothing reported it is the result for the current refImage,
\* sourceImage and intensity.
C12_PreviewIsCurrent ==
    /\ (Settled /\ (refImage = NoUrl \/ sourceImage = NoUrl))
           => previewImage = NoUrl
    /\ GradedCurrent
           => previewImage = GradedPreview(sourceImage, refImage, intensity)

====
